---------------------------- MODULE Spec2Model ----------------------------
(***************************************************************************)
(* efl::Poly<Base, Derived...> (include/Poly/Poly.hpp): a container that   *)
(* holds at most one object of a closed set of types in inline storage,    *)
(* identified by the tag id_.  The model keeps the tag (id) and the        *)
(* object that is live in the storage (data) as separate state, so that    *)
(* their agreement is something the operations have to establish.          *)
(*                                                                         *)
(* Every action is one public operation of one container, run to its end.  *)
(* The steps an operation takes inside (destructor calls, placement news,  *)
(* writes of id_, reads of the argument, callback invocations) are         *)
(* recorded in order in log; pre and op keep the state before the last     *)
(* operation and its arguments.                                            *)
(***************************************************************************)
EXTENDS Integers, Sequences, FiniteSets

\* Number of Poly objects of the client program (besides std::swap's temporary).
NumContainers == 2
\* Number of distinguishable contents of a payload object.
NumValues == 2

\* using MyPoly = efl::Poly<MyBase, Meower, Woofer>: the list handed to IPolyBase.
Types == <<"MyBase", "Meower", "Woofer">>

Containers == 1..NumContainers
\* The local `tmp` of std::swap.
Tmp == 0
Slots == 0..NumContainers
Values == 0..(NumValues - 1)
\* A reference that is not into any container (a temporary or a local value).
Ext == -1

\* Storage with no live object in it.
NoObj == [type |-> "none", val |-> 0]
Obj(T, v) == [type |-> T, val |-> v]

VARIABLES
  baseAbstract,   \* std::is_abstract_v<Base> of this instantiation
  assertsEnabled, \* POLY_ASSERT expands to a checking assert (NDEBUG not defined)
  alive,          \* alive[c]: the Poly object c is within its lifetime
  id,             \* id[c]: the field id_
  data,           \* data[c]: the object live in data_ (NoObj: none)
  aborted,        \* the program was terminated by a failed assertion
  op,             \* the last operation and its arguments
  pre,            \* id, data and alive before the last operation
  log             \* the steps of the last operation, in order

vars == <<baseAbstract, assertsEnabled, alive, id, data, aborted, op, pre, log>>

---------------------------------------------------------------------------
(* H::IPoly / H::PolyNode: the compile-time type <-> tag relation *)

\* sizeof...(Derived) + 1
Size == Len(Types)

\* Derived...: the variant types D1..Dn after the Base.
Derived == Tail(Types)

\* The index sequence taken to start at 1.
IndexOf_OneBased(T) == CHOOSE i \in 1..Len(Types) : Types[i] = T

\* The index II of T in std::make_index_sequence<sizeof...(TT)> (0-based).
IndexOf(T) == (CHOOSE i \in 1..Len(Types) : Types[i] = T) - 1

\* IGetID with the tag of the I-th type taken to be I instead of I + 1.
IGetID_ZeroBased(T) == IndexOf(T)

\* PolyNode<T, I>::IGetID(TyNode<T>) returns IdNode<I + 1>.
IGetID(T) == IndexOf(T) + 1

\* PolyNode<T, I>::IGetTy(IdNode<I + 1>) returns TyNode<T>: the type of tag i.
IGetTy(i) == Types[i]

\* Poly::ID<T> = BaseType::GetID<T>().value
ID(T) == IGetID(T)

\* Base, Derived...: the types matches_any<T, Base, Derived...> accepts.
AllTypes == {Types[i] : i \in 1..Len(Types)}

\* A type that can be instantiated (static_assert(!std::is_abstract_v<U>)).
IsAbstract(T) == baseAbstract /\ T = Types[1]

ConcreteTypes == {Types[i] : i \in 1..Len(Types)} \ {T \in {Types[1]} : baseAbstract}

---------------------------------------------------------------------------
(* Observers *)

holdsType(idv, T) == idv = ID(T)

\* holdsAny that does not count the first tag.
holdsAny_SkipBase(idv) == idv > 1

holdsAny(idv) == idv /= 0

isEmpty(idv) == idv = 0

\* getPtr without the test for tag 0.
getPtr_NoNullCheck(idv) == "storage"

\* getPtr(): nullptr for tag 0, else &data_.base_.
getPtr(idv) == IF idv = 0 THEN "nullptr" ELSE "storage"

---------------------------------------------------------------------------
(* Dispatch: visit / visit_ *)

\* visit_<T, Next...>(F): the first T of the list whose ID equals id_ gets the
\* callback; visit_<>(F) (empty list) calls nothing.  The result is the type the
\* callback is invoked with, "none" when it is not invoked.
RECURSIVE visit_(_, _)
visit_(idv, TT) ==
  IF TT = <<>> THEN "none"
  ELSE IF ID(Head(TT)) /= idv THEN visit_(idv, Tail(TT))
  ELSE Head(TT)

\* visit dispatching over Derived... only, the Base left out of the chain.
visit_SkipBase(idv) == IF isEmpty(idv) THEN "none" ELSE visit_(idv, Tail(Types))

\* visit(F): nothing when empty, else visit_<Base, Derived...>(F).
visit(idv) == IF isEmpty(idv) THEN "none" ELSE visit_(idv, Types)

---------------------------------------------------------------------------
(* The steps of an operation, on m = [id, data, log] *)

Event(e, c, T, tag, was) ==
  [ev |-> e, c |-> c, type |-> T, tag |-> tag, was |-> was]

\* this->id_ = tag
SetId(m, c, tag) ==
  [m EXCEPT !.id[c] = tag,
            !.log = Append(@, Event("settag", c, "none", tag, m.data[c].type))]

\* P->~T() on the storage of c; `was` records what was live there.
Destruct(m, c, T) ==
  [m EXCEPT !.data[c] = NoObj,
            !.log = Append(@, Event("destroy", c, T, m.id[c], m.data[c].type))]

\* new (data_.raw_) T{...} with contents v; `was` records what it is built over.
PlacementNew(m, c, T, v) ==
  [m EXCEPT !.data[c] = Obj(T, v),
            !.log = Append(@, Event("construct", c, T, m.id[c], m.data[c].type))]

\* The callback of the client is invoked with a T* into the storage of c.
Invoke(m, c, T) ==
  [m EXCEPT !.log = Append(@, Event("call", c, T, m.id[c], m.data[c].type))]

\* The copy constructor of T, run by the placement new into the storage of c,
\* throws: no object is constructed.
Throw(m, c, T) ==
  [m EXCEPT !.log = Append(@, Event("throw", c, T, m.id[c], m.data[c].type))]

\* A reference to a value: ref.c = Ext is a value outside every container with
\* contents ref.val; otherwise it refers to the payload in the storage of ref.c.
\* Reading through a reference whose object has been destroyed yields contents g.
ReadRef(m, ref, g) ==
  IF ref.c = Ext THEN ref.val
  ELSE IF m.data[ref.c] = NoObj THEN g
  ELSE m.data[ref.c].val

LogRead(m, ref, T) ==
  IF ref.c = Ext THEN m
  ELSE [m EXCEPT !.log = Append(@, Event("read", ref.c, T, m.id[ref.c], m.data[ref.c].type))]

\* T{std::move(*P)}: the moved-from object stays live with contents w.
MovedFrom(m, ref, w) ==
  IF ref.c = Ext \/ m.data[ref.c] = NoObj THEN m
  ELSE [m EXCEPT !.data[ref.c].val = w]

\* The payload of container k, as a reference.
Payload(k) == [c |-> k, val |-> 0]

\* destroySelf without the reset of id_.
destroySelf_NoReset(m, c) ==
  LET T == visit(m.id[c])
  IN IF T = "none" THEN m ELSE Destruct(m, c, T)

\* destroySelf that resets id_ without calling the destructor.
destroySelf_NoDestruct(m, c) == SetId(m, c, 0)

\* destroySelf(): visit with the destroying callback, then id_ = 0.
destroySelf(m, c) ==
  LET T == visit(m.id[c])
      m1 == IF T = "none" THEN m ELSE Destruct(m, c, T)
  IN SetId(m1, c, 0)

---------------------------------------------------------------------------
(* Constructors, destructor and assignment operators, on m *)

\* The copy constructor ending with p.destroySelf(), as the move constructor does.
CopyConstruct_EraseSource(m, d, s, g) ==
  LET m1 == SetId(m, d, m.id[s])
      T  == visit(m1.id[s])
      m2 == IF T = "none" \/ IsAbstract(T) THEN m1
            ELSE PlacementNew(LogRead(m1, Payload(s), T), d, T, ReadRef(m1, Payload(s), g))
  IN destroySelf(m2, s)

\* Poly(const Poly& p) : id_(p.id_) { p.visit(copy into this->data_) }
CopyConstruct(m, d, s, g) ==
  LET m1 == SetId(m, d, m.id[s])
      T  == visit(m1.id[s])
  IN IF T = "none" \/ IsAbstract(T) THEN m1
     ELSE PlacementNew(LogRead(m1, Payload(s), T), d, T, ReadRef(m1, Payload(s), g))

\* The move constructor without the final p.destroySelf().
MoveConstruct_KeepSource(m, d, s, g, w) ==
  LET m1 == SetId(m, d, m.id[s])
      T  == visit(m1.id[s])
  IN IF T = "none" \/ IsAbstract(T) THEN m1
     ELSE PlacementNew(MovedFrom(LogRead(m1, Payload(s), T), Payload(s), w),
                       d, T, ReadRef(m1, Payload(s), g))

\* Poly(Poly&& p) : id_(p.id_) { p.visit(move into this->data_); p.destroySelf(); }
MoveConstruct(m, d, s, g, w) ==
  LET m1 == SetId(m, d, m.id[s])
      T  == visit(m1.id[s])
      m2 == IF T = "none" \/ IsAbstract(T) THEN m1
            ELSE PlacementNew(MovedFrom(LogRead(m1, Payload(s), T), Payload(s), w),
                              d, T, ReadRef(m1, Payload(s), g))
  IN destroySelf(m2, s)

\* Poly(const U& u) : id_(ID<U>) { new (data_.raw_) U{u}; }
ConstructConstRef(m, c, U, ref, g) ==
  LET m1 == SetId(m, c, ID(U))
  IN PlacementNew(LogRead(m1, ref, U), c, U, ReadRef(m1, ref, g))

\* Poly(U&& u) : id_(ID<U>) { new (data_.raw_) U{std::move(u)}; }
ConstructRvalue(m, c, U, ref, g, w) ==
  LET m1 == SetId(m, c, ID(U))
  IN PlacementNew(MovedFrom(LogRead(m1, ref, U), ref, w), c, U, ReadRef(m1, ref, g))

\* Copy assignment with the body of the move assignment: it ends with
\* p.destroySelf().
CopyAssignOp_EraseSource(m, d, s, g) ==
  LET m1 == destroySelf(m, d)
      m2 == SetId(m1, d, m1.id[s])
      T  == visit(m2.id[s])
      m3 == IF T = "none" THEN m2
            ELSE PlacementNew(LogRead(m2, Payload(s), T), d, T, ReadRef(m2, Payload(s), g))
  IN destroySelf(m3, s)

\* operator=(const Poly& p): destroySelf(); id_ = p.id_; p.visit(copy into data_)
CopyAssignOp(m, d, s, g) ==
  LET m1 == destroySelf(m, d)
      m2 == SetId(m1, d, m1.id[s])
      T  == visit(m2.id[s])
  IN IF T = "none" THEN m2
     ELSE PlacementNew(LogRead(m2, Payload(s), T), d, T, ReadRef(m2, Payload(s), g))

\* operator=(const Poly& p) when T{*P} throws: destroySelf(); id_ = p.id_; and
\* the exception leaves the operator from inside p.visit.
CopyAssignThrows(m, d, s) ==
  LET m1 == destroySelf(m, d)
      m2 == SetId(m1, d, m1.id[s])
      T  == visit(m2.id[s])
  IN IF T = "none" THEN m2
     ELSE Throw(LogRead(m2, Payload(s), T), d, T)

\* Move assignment without `this->id_ = p.id_`.
MoveAssignOp_NoTag(m, d, s, g, w) ==
  LET m1 == destroySelf(m, d)
      T  == visit(m1.id[s])
      m3 == IF T = "none" THEN m1
            ELSE PlacementNew(MovedFrom(LogRead(m1, Payload(s), T), Payload(s), w),
                              d, T, ReadRef(m1, Payload(s), g))
  IN destroySelf(m3, s)

\* operator=(Poly&& p): destroySelf(); id_ = p.id_; p.visit(move into data_);
\* p.destroySelf()
MoveAssignOp(m, d, s, g, w) ==
  LET m1 == destroySelf(m, d)
      m2 == SetId(m1, d, m1.id[s])
      T  == visit(m2.id[s])
      m3 == IF T = "none" THEN m2
            ELSE PlacementNew(MovedFrom(LogRead(m2, Payload(s), T), Payload(s), w),
                              d, T, ReadRef(m2, Payload(s), g))
  IN destroySelf(m3, s)

\* operator=(const U& u): destroySelf(); id_ = ID<U>; new (data_.raw_) U{u};
AssignConstRef(m, c, U, ref, g) ==
  LET m1 == destroySelf(m, c)
      m2 == SetId(m1, c, ID(U))
  IN PlacementNew(LogRead(m2, ref, U), c, U, ReadRef(m2, ref, g))

\* operator=(const U& u) when U{u} throws: destroySelf(); id_ = ID<U>; and the
\* exception leaves the operator.
AssignConstRefThrows(m, c, U, ref) ==
  LET m1 == destroySelf(m, c)
      m2 == SetId(m1, c, ID(U))
  IN Throw(LogRead(m2, ref, U), c, U)

\* Value assignment without the leading destroySelf().
AssignRvalue_NoDestroy(m, c, U, ref, g, w) ==
  LET m2 == SetId(m, c, ID(U))
  IN PlacementNew(MovedFrom(LogRead(m2, ref, U), ref, w), c, U, ReadRef(m2, ref, g))

\* operator=(U&& u): destroySelf(); id_ = ID<U>; new (data_.raw_) U{std::move(u)};
AssignRvalue(m, c, U, ref, g, w) ==
  LET m1 == destroySelf(m, c)
      m2 == SetId(m1, c, ID(U))
  IN PlacementNew(MovedFrom(LogRead(m2, ref, U), ref, w), c, U, ReadRef(m2, ref, g))

\* std::swap(a, b): Poly tmp(std::move(a)); a = std::move(b); b = std::move(tmp);
\* and tmp is destroyed at the end of the scope.
SwapOp(m, a, b, g, w) ==
  LET m1 == MoveConstruct(m, Tmp, a, g, w)
      m2 == MoveAssignOp(m1, a, b, g, w)
      m3 == MoveAssignOp(m2, b, Tmp, g, w)
  IN destroySelf(m3, Tmp)

---------------------------------------------------------------------------
(* The state machine *)

Cur == [id |-> id, data |-> data, log |-> <<>>]

OpRec(name, d, s, T, ret) ==
  [name |-> name, d |-> d, s |-> s, type |-> T, ret |-> ret]

Idle == OpRec("idle", Ext, Ext, "none", "none")

\* The client is between two statements and the program has not been aborted.
Ready == ~aborted /\ op = Idle

\* The operation `o` took the containers from the current state to m.
Commit(o, m, aliveNew) ==
  /\ op' = o
  /\ pre' = [id |-> id, data |-> data, alive |-> alive]
  /\ id' = m.id
  /\ data' = m.data
  /\ log' = m.log
  /\ alive' = aliveNew
  /\ UNCHANGED <<baseAbstract, assertsEnabled, aborted>>

\* The values a client can hand to an operation taking a U: a value of its own,
\* or the payload of a live container, reached through the exactly-typed pointer
\* of visit or, as a Base, through operator->.
Refs(U) ==
  {[c |-> Ext, val |-> v] : v \in Values} \cup
  {Payload(k) : k \in {k \in Containers :
       /\ alive[k]
       /\ data[k] /= NoObj
       /\ (data[k].type = U \/ U = Types[1])}}

Init ==
  /\ baseAbstract \in BOOLEAN
  /\ assertsEnabled \in BOOLEAN
  /\ alive = [c \in Slots |-> FALSE]
  /\ id = [c \in Slots |-> 0]
  /\ data = [c \in Slots |-> NoObj]
  /\ aborted = FALSE
  /\ op = Idle
  /\ pre = [id |-> id, data |-> data, alive |-> alive]
  /\ log = <<>>

\* constexpr Poly() = default;  (id_ = 0, data_ {})
DefaultCtor(c) ==
  /\ Ready /\ ~alive[c]
  /\ Commit(OpRec("Poly()", c, Ext, "none", "none"),
            [Cur EXCEPT !.id[c] = 0, !.data[c] = NoObj],
            [alive EXCEPT ![c] = TRUE])

CopyCtor(d, s) ==
  /\ Ready /\ ~alive[d] /\ alive[s]
  /\ \E m \in {CopyConstruct(Cur, d, s, g) : g \in Values} :
         Commit(OpRec("Poly(const Poly&)", d, s, "none", "none"), m, [alive EXCEPT ![d] = TRUE])

MoveCtor(d, s) ==
  /\ Ready /\ ~alive[d] /\ alive[s]
  /\ \E m \in {MoveConstruct(Cur, d, s, g, w) : g \in Values, w \in Values} :
         Commit(OpRec("Poly(Poly&&)", d, s, "none", "none"), m, [alive EXCEPT ![d] = TRUE])

ValueCtorCopy(c, U) ==
  /\ Ready /\ ~alive[c] /\ U \in ConcreteTypes
  /\ \E ref \in Refs(U) :
       \E m \in {ConstructConstRef(Cur, c, U, ref, g) : g \in Values} :
         Commit(OpRec("Poly(const U&)", c, ref.c, U, "none"), m, [alive EXCEPT ![c] = TRUE])

ValueCtorMove(c, U) ==
  /\ Ready /\ ~alive[c] /\ U \in ConcreteTypes
  /\ \E ref \in Refs(U) :
       \E m \in {ConstructRvalue(Cur, c, U, ref, g, w) : g \in Values, w \in Values} :
         Commit(OpRec("Poly(U&&)", c, ref.c, U, "none"), m, [alive EXCEPT ![c] = TRUE])

\* ~Poly() { destroySelf(); }
Dtor(c) ==
  /\ Ready /\ alive[c]
  /\ Commit(OpRec("~Poly()", c, Ext, "none", "none"),
            destroySelf(Cur, c), [alive EXCEPT ![c] = FALSE])

\* The copying callback has no `if constexpr (!std::is_abstract_v<T>)`: with an
\* abstract Base the operator does not instantiate (`new T{*P}` with T = Base).
\* The operator is a template, so it is the function called by
\* d.operator=<void>(s); d and s may be the same object.
CopyAssign(d, s) ==
  /\ Ready /\ alive[d] /\ alive[s] /\ ~baseAbstract
  /\ \E m \in {CopyAssignOp(Cur, d, s, g) : g \in Values} :
         Commit(OpRec("operator=(const Poly&)", d, s, "none", "none"), m, alive)

MoveAssign(d, s) ==
  /\ Ready /\ alive[d] /\ alive[s] /\ ~baseAbstract
  /\ \E m \in {MoveAssignOp(Cur, d, s, g, w) : g \in Values, w \in Values} :
         Commit(OpRec("operator=(Poly&&)", d, s, "none", "none"), m, alive)

ValueAssignCopy(c, U) ==
  /\ Ready /\ alive[c] /\ U \in ConcreteTypes
  /\ \E ref \in Refs(U) :
       \E m \in {AssignConstRef(Cur, c, U, ref, g) : g \in Values} :
         Commit(OpRec("operator=(const U&)", c, ref.c, U, "none"), m, alive)

ValueAssignMove(c, U) ==
  /\ Ready /\ alive[c] /\ U \in ConcreteTypes
  /\ \E ref \in Refs(U) :
       \E m \in {AssignRvalue(Cur, c, U, ref, g, w) : g \in Values, w \in Values} :
         Commit(OpRec("operator=(U&&)", c, ref.c, U, "none"), m, alive)

\* void visit(auto&& F): the callback gets a T* and may write the payload.
Visit(c) ==
  /\ Ready /\ alive[c]
  /\ LET T == visit(id[c]) IN
       \E m \in {IF T = "none" THEN Cur
                 ELSE MovedFrom(Invoke(Cur, c, T), Payload(c), w) : w \in Values} :
         Commit(OpRec("visit", c, Ext, T, "none"), m, alive)

\* void visit(auto&& F) const: the callback gets a const T*.
VisitConst(c) ==
  /\ Ready /\ alive[c]
  /\ LET T == visit(id[c]) IN
       Commit(OpRec("visit const", c, Ext, T, "none"),
              IF T = "none" THEN Cur ELSE Invoke(Cur, c, T), alive)

\* operator->(): POLY_ASSERT(holdsAny()); return getPtr();
ArrowOp(c, name) ==
  /\ Ready /\ alive[c]
  /\ IF assertsEnabled /\ ~holdsAny(id[c])
     THEN /\ aborted' = TRUE
          /\ op' = OpRec(name, c, Ext, "none", "abort")
          /\ pre' = [id |-> id, data |-> data, alive |-> alive]
          /\ log' = <<>>
          /\ UNCHANGED <<baseAbstract, assertsEnabled, alive, id, data>>
     ELSE Commit(OpRec(name, c, Ext, "none", getPtr(id[c])), Cur, alive)

Arrow(c) == ArrowOp(c, "operator->")

ArrowConst(c) == ArrowOp(c, "operator-> const")

\* void erase() noexcept { destroySelf(); }
Erase(c) ==
  /\ Ready /\ alive[c]
  /\ Commit(OpRec("erase", c, Ext, "none", "none"), destroySelf(Cur, c), alive)

\* The result of a bool observer, as recorded in op.ret.
Bool(b) == IF b THEN "true" ELSE "false"

\* template <typename T> constexpr bool holdsType() const noexcept
HoldsTypeObs(c, T) ==
  /\ Ready /\ alive[c]
  /\ Commit(OpRec("holdsType", c, Ext, T, Bool(holdsType(id[c], T))), Cur, alive)

\* constexpr bool holdsAny() const noexcept
HoldsAnyObs(c) ==
  /\ Ready /\ alive[c]
  /\ Commit(OpRec("holdsAny", c, Ext, "none", Bool(holdsAny(id[c]))), Cur, alive)

\* constexpr bool isEmpty() const noexcept
IsEmptyObs(c) ==
  /\ Ready /\ alive[c]
  /\ Commit(OpRec("isEmpty", c, Ext, "none", Bool(isEmpty(id[c]))), Cur, alive)

\* std::swap(a, b) of the client, as its three moves; a and b may be the same
\* object.  It goes through operator=(Poly&&), hence the concrete Base.
StdSwap(a, b) ==
  /\ Ready /\ alive[a] /\ alive[b] /\ ~baseAbstract
  /\ \E m \in {SwapOp(Cur, a, b, g, w) : g \in Values, w \in Values} :
         Commit(OpRec("std::swap", a, b, "none", "none"), m, alive)

\* The statement of the client that performed the operation is over: what is
\* recorded about the operation is dropped and the next statement can run.
NextStatement ==
  /\ ~aborted /\ op /= Idle
  /\ op' = Idle
  /\ pre' = [id |-> id, data |-> data, alive |-> alive]
  /\ log' = <<>>
  /\ UNCHANGED <<baseAbstract, assertsEnabled, alive, id, data, aborted>>

Next ==
  \/ NextStatement
  \/ \E c \in Containers : DefaultCtor(c)
  \/ \E d \in Containers, s \in Containers : CopyCtor(d, s)
  \/ \E d \in Containers, s \in Containers : MoveCtor(d, s)
  \/ \E c \in Containers, U \in ConcreteTypes : ValueCtorCopy(c, U)
  \/ \E c \in Containers, U \in ConcreteTypes : ValueCtorMove(c, U)
  \/ \E c \in Containers : Dtor(c)
  \/ \E d \in Containers, s \in Containers : CopyAssign(d, s)
  \/ \E d \in Containers, s \in Containers : MoveAssign(d, s)
  \/ \E c \in Containers, U \in ConcreteTypes : ValueAssignCopy(c, U)
  \/ \E c \in Containers, U \in ConcreteTypes : ValueAssignMove(c, U)
  \/ \E c \in Containers : Visit(c)
  \/ \E c \in Containers : VisitConst(c)
  \/ \E c \in Containers : Arrow(c)
  \/ \E c \in Containers : ArrowConst(c)
  \/ \E c \in Containers : Erase(c)
  \/ \E a \in Containers, b \in Containers : StdSwap(a, b)
  \/ \E c \in Containers, T \in AllTypes : HoldsTypeObs(c, T)
  \/ \E c \in Containers : HoldsAnyObs(c)
  \/ \E c \in Containers : IsEmptyObs(c)

Spec == Init /\ [][Next]_vars

\* operator=(const Poly&) is not noexcept: the copy constructor of the held type
\* may throw.  It is reached only when p still holds something after
\* destroySelf(), so not in a self-assignment.
CopyAssignThrow(d, s) ==
  /\ Ready /\ alive[d] /\ alive[s] /\ ~baseAbstract
  /\ d /= s /\ visit(id[s]) /= "none"
  /\ Commit(OpRec("operator=(const Poly&)", d, s, "none", "throw"),
            CopyAssignThrows(Cur, d, s), alive)

\* operator=(const U&) is not noexcept: the copy constructor of U may throw.
ValueAssignCopyThrow(c, U) ==
  /\ Ready /\ alive[c] /\ U \in ConcreteTypes
  /\ \E ref \in Refs(U) :
       Commit(OpRec("operator=(const U&)", c, ref.c, U, "throw"),
              AssignConstRefThrows(Cur, c, U, ref), alive)

\* The operations, those left by an exception of a payload's copy constructor
\* included.
NextThrow ==
  \/ Next
  \/ \E d \in Containers, s \in Containers : CopyAssignThrow(d, s)
  \/ \E c \in Containers, U \in ConcreteTypes : ValueAssignCopyThrow(c, U)

SpecThrow == Init /\ [][NextThrow]_vars

---------------------------------------------------------------------------
(* Properties *)

MoveOps == {"Poly(Poly&&)", "operator=(Poly&&)"}
ValueCtors == {"Poly(const U&)", "Poly(U&&)"}
ValueAssigns == {"operator=(const U&)", "operator=(U&&)"}
VisitOps == {"visit", "visit const"}
ArrowOps == {"operator->", "operator-> const"}

\* The positions of the log at which step e was taken on container c.
Steps(e, c) == {i \in DOMAIN log : log[i].ev = e /\ log[i].c = c}

\* C1: after a move construction of D from S, or D.move-assign(S), with S and D
\* distinct containers, D holds exactly the type S held before (and is empty if S
\* was empty), and S is empty: its tag is 0 and its payload, if it had one, has
\* been destroyed.
C1_MoveEmptiesSource ==
  (op.name \in MoveOps /\ op.s /= op.d) =>
    /\ id[op.d] = pre.id[op.s]
    /\ data[op.d].type = pre.data[op.s].type
    /\ \A T \in AllTypes : holdsType(id[op.d], T) <=> holdsType(pre.id[op.s], T)
    /\ isEmpty(id[op.s])
    /\ data[op.s] = NoObj
    /\ pre.data[op.s] /= NoObj =>
         \E i \in Steps("destroy", op.s) : log[i].was = pre.data[op.s].type

C1_Witness ==
  /\ op.name = "operator=(Poly&&)"
  /\ op.s /= op.d
  /\ pre.data[op.s].type = "Woofer"
  /\ pre.data[op.d].type = "Meower"

\* C2: in every state between operations and after every completed operation,
\* every live container has tag 0 exactly when its storage holds no live
\* object, and tag i > 0 exactly when its storage holds a live object of the
\* type mapped to tag i.
C2_TagMatchesStorage ==
  \A c \in Containers : alive[c] =>
    /\ id[c] \in 0..Size
    /\ id[c] = 0 <=> data[c] = NoObj
    /\ \A i \in 1..Size : id[c] = i <=> data[c].type = IGetTy(i)

C2_Witness ==
  /\ op.name \in MoveOps
  /\ \E c \in Containers : alive[c] /\ id[c] = 3 /\ data[c].type = "Woofer"
  /\ \E c \in Containers : alive[c] /\ id[c] = 0 /\ pre.id[c] /= 0

\* C3: D.copy-assign(S), S and D the same container included, leaves S as it
\* was (same tag, same held type and value) and D holding the type S held before.
C3_CopyAssignKeepsSource ==
  op.name = "operator=(const Poly&)" =>
    /\ id[op.s] = pre.id[op.s]
    /\ data[op.s] = pre.data[op.s]
    /\ id[op.d] = pre.id[op.s]
    /\ data[op.d].type = pre.data[op.s].type

\* C4: assigning a value of type B to a container that holds an A (B = A or
\* not) destroys the A strictly before the B is constructed, constructs the B
\* in storage that holds no live object (the old object is not reused), and
\* afterwards holdsType<B>() is true and, when A /= B, holdsType<A>() is false.
C4_DestroyBeforeConstruct ==
  (op.name \in ValueAssigns /\ pre.data[op.d] /= NoObj) =>
    LET A == pre.data[op.d].type
        B == op.type
        dtors == Steps("destroy", op.d)
        ctors == Steps("construct", op.d)
    IN /\ Cardinality(dtors) = 1
       /\ Cardinality(ctors) = 1
       /\ \A i \in dtors : log[i].type = A /\ log[i].was = A
       /\ \A j \in ctors : log[j].type = B /\ log[j].was = "none"
       /\ \A i \in dtors, j \in ctors : i < j
       /\ holdsType(id[op.d], B)
       /\ data[op.d].type = B
       /\ A /= B => ~holdsType(id[op.d], A)

C4_Witness ==
  /\ op.name = "operator=(U&&)"
  /\ pre.data[op.d].type = "Meower"
  /\ op.type = "Woofer"
  /\ holdsType(id[op.d], "Woofer")

\* C5: visit, in the mutable and in the read-only form, invokes the callback
\* zero times on an empty container and exactly once on a container holding a
\* T, with a pointer typed as exactly T, the type of the container's tag.
C5_VisitExact ==
  op.name \in VisitOps =>
    LET calls == {i \in DOMAIN log : log[i].ev = "call"}
    IN IF pre.data[op.d] = NoObj
       THEN calls = {} /\ isEmpty(pre.id[op.d])
       ELSE /\ Cardinality(calls) = 1
            /\ \A i \in calls :
                 /\ log[i].c = op.d
                 /\ log[i].type = pre.data[op.d].type
                 /\ log[i].type = IGetTy(pre.id[op.d])

C5_Witness ==
  /\ op.name = "visit const"
  /\ pre.data[op.d].type = "Woofer"
  /\ \E i \in DOMAIN log : log[i].ev = "call" /\ log[i].type = "Woofer"

\* C6: copy-constructing D from S leaves D empty if S is empty and otherwise
\* holding the same type as S; the tag and the payload of S are unchanged.
C6_CopyCtor ==
  op.name = "Poly(const Poly&)" =>
    /\ id[op.s] = pre.id[op.s]
    /\ data[op.s] = pre.data[op.s]
    /\ isEmpty(pre.id[op.s]) => isEmpty(id[op.d]) /\ data[op.d] = NoObj
    /\ ~isEmpty(pre.id[op.s]) =>
         /\ data[op.d].type = data[op.s].type
         /\ \A T \in AllTypes : holdsType(id[op.d], T) <=> holdsType(id[op.s], T)
         /\ holdsAny(id[op.d])

C6_Witness ==
  /\ op.name = "Poly(const Poly&)"
  /\ pre.data[op.s].type = "Woofer"
  /\ holdsAny(id[op.d])

\* C7: constructing or assigning a container from a value of type Di makes
\* holdsType<Di>() true and holdsType<Dj>() false for every other Dj; and in
\* every state at most one holdsType<T>() is true of a container, and
\* holdsAny() is true exactly when one is.
C7_HoldsTypeExclusive ==
  /\ op.name \in (ValueCtors \cup ValueAssigns) =>
       \A T \in AllTypes : holdsType(id[op.d], T) <=> T = op.type
  /\ \A c \in Containers : alive[c] =>
       LET held == {T \in AllTypes : holdsType(id[c], T)}
       IN Cardinality(held) <= 1 /\ (holdsAny(id[c]) <=> held /= {})

C7_Witness ==
  /\ op.name = "Poly(const U&)"
  /\ op.type = "Meower"
  /\ holdsType(id[op.d], "Meower")
  /\ \E c \in Containers : alive[c] /\ ~holdsAny(id[c])

\* C8: erase leaves the container empty whatever it held; on an empty
\* container it changes nothing and destroys nothing; and erasing again after
\* an erase changes nothing more (erase is idempotent).
C8_EraseIdempotent ==
  op.name = "erase" =>
    /\ isEmpty(id[op.d])
    /\ data[op.d] = NoObj
    /\ isEmpty(pre.id[op.d]) =>
         /\ id = pre.id
         /\ data = pre.data
         /\ Steps("destroy", op.d) = {}
    /\ LET again == destroySelf(Cur, op.d)
       IN /\ again.id = id
          /\ again.data = data
          /\ \A i \in DOMAIN again.log : again.log[i].ev /= "destroy"

C8_Witness ==
  /\ op.name = "erase"
  /\ pre.alive[op.d]
  /\ isEmpty(pre.id[op.d])
  /\ \E c \in Containers : c /= op.d /\ data[c] /= NoObj

C10_AssertAlwaysDetects ==
  op.name \in ArrowOps =>
    /\ id = pre.id
    /\ data = pre.data
    /\ isEmpty(pre.id[op.d]) => aborted /\ op.ret = "abort"
    /\ ~isEmpty(pre.id[op.d]) => ~aborted /\ op.ret = "storage"

\* C10 amended: operator-> on an empty container is caught by the assertion
\* when POLY_ASSERT checks (the program is aborted); when it does not check,
\* a null pointer is returned.  Either way the container is unchanged.  On a
\* non-empty container the assertion holds, the pointer returned is the
\* non-null pointer to the storage and the tag is unchanged.
C10_AssertDetectsWhenEnabled ==
  op.name \in ArrowOps =>
    /\ id = pre.id
    /\ data = pre.data
    /\ (isEmpty(pre.id[op.d]) /\ assertsEnabled) => aborted /\ op.ret = "abort"
    /\ (isEmpty(pre.id[op.d]) /\ ~assertsEnabled) => ~aborted /\ op.ret = "nullptr"
    /\ ~isEmpty(pre.id[op.d]) => ~aborted /\ op.ret = "storage"

C10_Witness ==
  /\ op.name = "operator->"
  /\ isEmpty(pre.id[op.d])
  /\ aborted
  /\ op.ret = "abort"

\* C11: a default-constructed container is empty (isEmpty() true, holdsAny()
\* false, no object in its storage); and in every state holdsAny() is the
\* negation of isEmpty(), also as the two observers report them.
C11_DefaultEmpty ==
  /\ op.name = "Poly()" =>
       /\ isEmpty(id[op.d])
       /\ ~holdsAny(id[op.d])
       /\ data[op.d] = NoObj
  /\ \A c \in Containers : alive[c] => (holdsAny(id[c]) <=> ~isEmpty(id[c]))
  /\ op.name = "holdsAny" => op.ret = Bool(~isEmpty(id[op.d]))
  /\ op.name = "isEmpty" => op.ret = Bool(~holdsAny(id[op.d]))

C11_Witness ==
  /\ op.name = "Poly()"
  /\ alive[op.d]
  /\ ~pre.alive[op.d]
  /\ isEmpty(id[op.d])
  /\ \E c \in Containers : alive[c] /\ holdsAny(id[c])

\* The number of containers (std::swap's temporary included) whose storage
\* holds a live object.
LiveCount(d) == Cardinality({c \in Slots : d[c] /= NoObj})

Count(e) == Cardinality({i \in DOMAIN log : log[i].ev = e})

\* C13: every payload constructed in a container's storage is destroyed exactly
\* once: a destructor only ever runs on a live object of its type, no object is
\* constructed over a live one (replaced without being destroyed), the objects
\* live after an operation are those live before plus the constructed minus
\* the destroyed, and a destroyed container leaves no live payload behind.
C13_DestroyedExactlyOnce ==
  /\ \A i \in DOMAIN log : log[i].ev = "destroy" => log[i].was = log[i].type
  /\ \A i \in DOMAIN log : log[i].ev = "construct" => log[i].was = "none"
  /\ LiveCount(pre.data) + Count("construct") = LiveCount(data) + Count("destroy")
  /\ \A c \in Slots : ~alive[c] => data[c] = NoObj

\* C14: in every operation the payload is constructed before the tag is set to
\* its nonzero value (no tag is set nonzero over storage that holds no live
\* object), and the payload is destroyed before the tag is reset to 0 (the
\* destructor runs while the tag is still nonzero, and the reset follows).
C14_ConstructThenSetTag ==
  \A c \in Slots :
    /\ \A i \in Steps("settag", c) : log[i].tag /= 0 => log[i].was /= "none"
    /\ \A i \in Steps("destroy", c) :
         /\ log[i].tag /= 0
         /\ \E j \in Steps("settag", c) : j > i /\ log[j].tag = 0

\* C15: when the copy construction of the new payload throws in copy-assign
\* from a container or in assign from a const value, the target ends empty
\* (tag 0, no live object), and erasing or destroying it afterwards destroys
\* nothing.
C15_ThrowLeavesEmpty ==
  op.ret = "throw" =>
    /\ isEmpty(id[op.d])
    /\ data[op.d] = NoObj
    /\ \A i \in DOMAIN destroySelf(Cur, op.d).log :
         destroySelf(Cur, op.d).log[i].ev /= "destroy"

\* C16 as stated: the variant types D1..Dn have the tags 1..n in list order,
\* injectively and never 0; the tag of a container is in [0, n], and a
\* container that holds a Di has tag i.
C16_DerivedTagsFromOne ==
  /\ \A i \in 1..Len(Derived) : ID(Derived[i]) /= 0
  /\ \A i \in 1..Len(Derived), j \in 1..Len(Derived) :
       ID(Derived[i]) = ID(Derived[j]) => i = j
  /\ \A c \in Containers : alive[c] =>
       /\ id[c] \in 0..Len(Derived)
       /\ \A i \in 1..Len(Derived) : data[c].type = Derived[i] => id[c] = i

\* C16 amended: the tags 1..n+1 go to Base, D1..Dn in list order (Base has
\* tag 1 and Di has tag i + 1), injectively and never 0; the tag of a container
\* is in [0, n + 1], a nonzero tag i means the container holds the i-th type
\* of that list, and with an abstract Base the tag 1 is never stored.
C16_TagsInListOrder ==
  /\ \A i \in 1..Size : ID(Types[i]) = i
  /\ \A i \in 1..Len(Derived) : ID(Derived[i]) = i + 1
  /\ \A T \in AllTypes : ID(T) /= 0
  /\ \A T1 \in AllTypes, T2 \in AllTypes : ID(T1) = ID(T2) => T1 = T2
  /\ \A c \in Containers : alive[c] =>
       /\ id[c] \in 0..(Len(Derived) + 1)
       /\ id[c] /= 0 => data[c].type = IGetTy(id[c])
       /\ baseAbstract => id[c] /= 1

C16_Witness ==
  /\ op.name = "Poly(U&&)"
  /\ op.type = Derived[Len(Derived)]
  /\ id[op.d] = Len(Derived) + 1
  /\ baseAbstract

ObserverOps == {"holdsType", "holdsAny", "isEmpty"}

\* The operations that move out of their source container op.s.
ContainerMoves == MoveOps \cup {"std::swap"}

\* The operations that move out of the value they are given, which may be the
\* payload of container op.s.
ValueMoves == {"Poly(U&&)", "operator=(U&&)"}

C18_NoReadAfterDestroy ==
  op.name \in ValueAssigns =>
    \A i \in DOMAIN log : log[i].ev = "read" => log[i].was /= "none"

=============================================================================
